---- MODULE Spec2Model ----
(***************************************************************************)
(* A model of the colour-scale generator (colorMix primitives, the         *)
(* color-mix feature probe, the HSLA and color-mix scale generators and    *)
(* the two entry points colorOptionToAlphaScale and                        *)
(* colorOptionToLightnessScale), and of the Vue plugin's install: the      *)
(* promise chain that loads Clerk and the listener that feeds resources.   *)
(*                                                                         *)
(* Encodings.                                                              *)
(*   - A JS string is a TLA+ string.  A Percentage literal ('92%') is a    *)
(*     sequence of one-character strings, so that parseInt reads digits.   *)
(*   - A JS number is an exact rational <<n, d>> (d > 0, lowest terms).    *)
(*   - undefined is <<>> wherever the defined values are records, tuples   *)
(*     or functions; a ColorOption is a tagged record.                     *)
(*   - A partial shade object is a function whose domain is the set of     *)
(*     keys the object has.                                                *)
(*   - The outcome of a call is a record: kind "undefined", "mapping" or   *)
(*     "throws".                                                           *)
(*   - A Clerk resource (client, session, user, organization) is a record  *)
(*     [id |-> ...]; a payload is a record of the four, each possibly      *)
(*     undefined.                                                          *)
(***************************************************************************)
EXTENDS Integers, Sequences, FiniteSets, TLC

VARIABLES
    ClerkCSSSupport,  \* window.ClerkCSSSupport: <<>> or [colorMix |-> <<>> | <<b>>]
    supportsAnswer,   \* what CSS.supports('color', 'color-mix(...)') answers now
    supportsLog,      \* the answers of the executions of CSS.supports, in order
    call,             \* the most recent call and its outcome
    ref,              \* an earlier call, remembered for comparison
    loaded,           \* plugin: loaded.value
    clerk,            \* plugin: clerk.value, "null" or "window.Clerk"
    resources,        \* plugin: resources.value
    pc,               \* plugin: where install's promise chain stands
    payloads          \* plugin: the payloads the listener has received, in order

colorVars == <<ClerkCSSSupport, supportsAnswer, supportsLog, call, ref>>

pluginVars == <<loaded, clerk, resources, pc, payloads>>

vars == <<ClerkCSSSupport, supportsAnswer, supportsLog, call, ref,
          loaded, clerk, resources, pc, payloads>>

---------------------------------------------------------------------------
(* Bounds of the model. *)

\* The most keys a sparse shade object supplies.
MaxSupplied == 2
\* The most keys a dense shade object lacks.
MaxMissing == 1
\* The most executions of CSS.supports the model follows.
MaxProbes == 3
\* Digits printed after the decimal point of a number.
MaxFracDigits == 3
\* The most payloads the plugin's listener receives.
MaxPayloads == 3

---------------------------------------------------------------------------
(* JS numbers as exact rationals. *)

RECURSIVE GCD(_, _)
GCD(a, b) == IF b = 0 THEN a ELSE GCD(b, a % b)

Abs(n) == IF n < 0 THEN -n ELSE n

Norm(n, d) ==
    LET g == GCD(Abs(n), d)
    IN  IF g = 0 THEN <<0, 1>> ELSE <<n \div g, d \div g>>

IntRat(n) == <<n, 1>>
RatAdd(a, b) == Norm(a[1] * b[2] + b[1] * a[2], a[2] * b[2])
RatSub(a, b) == Norm(a[1] * b[2] - b[1] * a[2], a[2] * b[2])
RatMulInt(a, k) == Norm(a[1] * k, a[2])
RatDivInt(a, k) == Norm(a[1], a[2] * k)
RatLeq(a, b) == a[1] * b[2] <= b[1] * a[2]

\* `${number}`: the decimal expansion, at most MaxFracDigits digits.
RECURSIVE FracDigits(_, _, _)
FracDigits(rem, d, k) ==
    IF rem = 0 \/ k = 0 THEN ""
    ELSE ToString((rem * 10) \div d) \o FracDigits((rem * 10) % d, d, k - 1)

NumToString(r) ==
    LET n == Abs(r[1])
        whole == n \div r[2]
        frac == FracDigits(n % r[2], r[2], MaxFracDigits)
    IN  (IF r[1] < 0 THEN "-" ELSE "") \o ToString(whole)
            \o (IF frac = "" THEN "" ELSE "." \o frac)

---------------------------------------------------------------------------
(* Percentage strings. *)

RECURSIVE Join(_)
Join(chars) == IF chars = <<>> THEN "" ELSE Head(chars) \o Join(Tail(chars))

DigitValue(c) ==
    CASE c = "0" -> 0 [] c = "1" -> 1 [] c = "2" -> 2 [] c = "3" -> 3
      [] c = "4" -> 4 [] c = "5" -> 5 [] c = "6" -> 6 [] c = "7" -> 7
      [] c = "8" -> 8 [] c = "9" -> 9 [] OTHER -> -1

\* parseInt: the value of the leading run of digits.
RECURSIVE ParseDigits(_, _)
ParseDigits(chars, acc) ==
    IF chars = <<>> \/ DigitValue(Head(chars)) < 0 THEN acc
    ELSE ParseDigits(Tail(chars), acc * 10 + DigitValue(Head(chars)))

parseInt(chars) == ParseDigits(chars, 0)

---------------------------------------------------------------------------
(* colorMix primitives. *)

colorMix(colorOne, colorTwo) ==
    "color-mix(in oklch, " \o colorOne \o ", " \o colorTwo \o ")"

transparentize(color, percentage) ==
    colorMix(color \o " " \o Join(percentage), "transparent")

lighten(color, percentage) ==
    colorMix(color \o " " \o ToString(100 - parseInt(percentage)) \o "%",
             "white " \o Join(percentage))

\* Faulty variant: black weighted like white in lighten.
darkenSymmetric(color, percentage) ==
    colorMix(color \o " " \o ToString(100 - parseInt(percentage)) \o "%",
             "black " \o Join(percentage))

darken(color, percentage) ==
    colorMix(color \o " " \o ToString(100 - parseInt(percentage)) \o "%",
             "black 10%")

---------------------------------------------------------------------------
(* The shade ladder. *)

Reverse(seq) == [i \in 1..Len(seq) |-> seq[Len(seq) + 1 - i]]

Range(seq) == {seq[i] : i \in 1..Len(seq)}

IndexOf(seq, x) == CHOOSE i \in 1..Len(seq) : seq[i] = x

LIGHT_SHADES == Reverse(<<"25", "50", "100", "150", "200", "300", "400">>)

DARK_SHADES == <<"600", "700", "750", "800", "850", "900", "950">>

ALL_SHADES == Reverse(LIGHT_SHADES) \o <<"500">> \o DARK_SHADES

\* The keys of DefaultShadeKey.
ShadeKeys == Range(ALL_SHADES)

TARGET_L_50_SHADE == 97

TARGET_L_900_SHADE == 12

ALPHA_SHADES_MAP ==
    [k \in ShadeKeys |->
        CASE k = "25" -> <<"2", "%">>
          [] k = "50" -> <<"3", "%">>
          [] k = "100" -> <<"7", "%">>
          [] k = "150" -> <<"1", "1", "%">>
          [] k = "200" -> <<"1", "5", "%">>
          [] k = "300" -> <<"2", "8", "%">>
          [] k = "400" -> <<"4", "1", "%">>
          [] k = "500" -> <<"5", "3", "%">>
          [] k = "600" -> <<"6", "2", "%">>
          [] k = "700" -> <<"7", "3", "%">>
          [] k = "750" -> <<"7", "8", "%">>
          [] k = "800" -> <<"8", "1", "%">>
          [] k = "850" -> <<"8", "4", "%">>
          [] k = "900" -> <<"8", "7", "%">>
          [] k = "950" -> <<"9", "2", "%">>]

\* createEmptyColorScale: every shade key, each undefined.
createEmptyColorScale == [k \in ShadeKeys |-> <<>>]

\* Object.keys of a scale: integer-like keys enumerate in ascending numeric
\* order, which is the order the literal lists them in.
ObjectKeys(scale) == SelectSeq(ALL_SHADES, LAMBDA k : k \in DOMAIN scale)

LIGHTNESS_SHADES_DEF ==
    [k \in ShadeKeys |->
        CASE k = "25" -> [type |-> "lighten", amount |-> <<"9", "2", "%">>]
          [] k = "50" -> [type |-> "lighten", amount |-> <<"8", "5", "%">>]
          [] k = "100" -> [type |-> "lighten", amount |-> <<"7", "0", "%">>]
          [] k = "150" -> [type |-> "lighten", amount |-> <<"5", "5", "%">>]
          [] k = "200" -> [type |-> "lighten", amount |-> <<"4", "0", "%">>]
          [] k = "300" -> [type |-> "lighten", amount |-> <<"2", "5", "%">>]
          [] k = "400" -> [type |-> "lighten", amount |-> <<"1", "0", "%">>]
          [] k = "500" -> [type |-> "base", amount |-> <<"0", "%">>]
          [] k = "600" -> [type |-> "darken", amount |-> <<"1", "0", "%">>]
          [] k = "700" -> [type |-> "darken", amount |-> <<"2", "5", "%">>]
          [] k = "750" -> [type |-> "darken", amount |-> <<"4", "0", "%">>]
          [] k = "800" -> [type |-> "darken", amount |-> <<"5", "5", "%">>]
          [] k = "850" -> [type |-> "darken", amount |-> <<"7", "0", "%">>]
          [] k = "900" -> [type |-> "darken", amount |-> <<"8", "5", "%">>]
          [] k = "950" -> [type |-> "darken", amount |-> <<"9", "2", "%">>]]

ALL_LIGHTNESS_SHADE_KEYS == ObjectKeys(LIGHTNESS_SHADES_DEF)

---------------------------------------------------------------------------
(* Colour options and outcomes. *)

NoObject == <<>>

UndefinedOption == [type |-> "undefined", str |-> "", obj |-> NoObject]
StringOption(s) == [type |-> "string", str |-> s, obj |-> NoObject]
ObjectOption(o) == [type |-> "object", str |-> "", obj |-> o]

\* !colorOption is false exactly for an object and a non-empty string.
Truthy(colorOption) ==
    \/ colorOption.type = "object"
    \/ colorOption.type = "string" /\ colorOption.str # ""

\* obj[key] is a non-empty string.
HasShade(obj, key) == key \in DOMAIN obj /\ obj[key] # ""

\* `${value}` of a colour option passed where a string is expected.
TemplateString(colorOption) ==
    IF colorOption.type = "object" THEN "[object Object]" ELSE colorOption.str

NoMap == <<>>
NoScale == <<>>

ReturnsUndefined == [kind |-> "undefined", map |-> NoMap, error |-> "", scale |-> NoScale]
Returns(m, s) == [kind |-> "mapping", map |-> m, error |-> "", scale |-> s]
Throws(msg) == [kind |-> "throws", map |-> NoMap, error |-> msg, scale |-> NoScale]

\* The object with the entries `${prefix}${key}` -> scale[key], for the keys
\* in `keys`.
PrefixedEntries(scale, keys, prefix) ==
    [pk \in {prefix \o k : k \in keys} |->
        scale[CHOOSE k \in keys : prefix \o k = pk]]

---------------------------------------------------------------------------
(* The colour-parsing collaborator (./colors). *)

HslaColor(h, s, l, a) == [h |-> h, s |-> s, l |-> l, a |-> a]

\* The colour strings the parser knows in this model.
ParseTable ==
    ("black" :> HslaColor(0, 0, IntRat(0), IntRat(1)))
    @@ ("white" :> HslaColor(0, 0, IntRat(100), IntRat(1)))
    @@ ("red" :> HslaColor(0, 100, IntRat(50), IntRat(1)))
    @@ ("#336699" :> HslaColor(210, 50, IntRat(40), IntRat(1)))
    @@ ("hsl(120, 100%, 12%)" :> HslaColor(120, 100, IntRat(12), IntRat(1)))
    @@ ("hsla(30, 20%, 97%, 0.5)" :> HslaColor(30, 20, IntRat(97), <<1, 2>>))

Parseable(str) == str \in DOMAIN ParseTable

toHslaColor(str) == ParseTable[str]

ColorParseFailure == "ColorParseFailure"

toHslaString(c) ==
    "hsla(" \o ToString(c.h) \o ", " \o ToString(c.s) \o "%, "
        \o NumToString(c.l) \o "%, " \o NumToString(c.a) \o ")"

changeHslaLightness(color, lightness) ==
    [color EXCEPT !.l = RatAdd(color.l, lightness)]

setHslaAlpha(color, alpha) == [color EXCEPT !.a = alpha]

---------------------------------------------------------------------------
(* HSLA generators. *)

generateFilledScaleFromBaseHslaColor(base) ==
    LET lightPercentage ==
            RatDivInt(RatSub(IntRat(TARGET_L_50_SHADE), base.l), Len(LIGHT_SHADES))
        darkPercentage ==
            RatDivInt(RatSub(base.l, IntRat(TARGET_L_900_SHADE)), Len(DARK_SHADES))
    IN  [k \in ShadeKeys |->
            IF k \in Range(LIGHT_SHADES)
            THEN changeHslaLightness(base,
                    RatMulInt(lightPercentage, IndexOf(LIGHT_SHADES, k)))
            ELSE IF k \in Range(DARK_SHADES)
            THEN changeHslaLightness(base,
                    RatMulInt(RatMulInt(darkPercentage, IndexOf(DARK_SHADES, k)), -1))
            ELSE base]

\* 0.02, 0.03, ... as rationals.
alphas ==
    << Norm(2, 100), Norm(3, 100), Norm(7, 100), Norm(11, 100), Norm(15, 100),
       Norm(28, 100), Norm(41, 100), Norm(53, 100), Norm(62, 100), Norm(73, 100),
       Norm(78, 100), Norm(81, 100), Norm(84, 100), Norm(87, 100), Norm(92, 100) >>

\* Faulty variant: the keys taken in string order instead of numeric order.
generateFilledAlphaScaleInStringOrder(base) ==
    LET newScale == createEmptyColorScale
        baseWithoutAlpha == setHslaAlpha(base, IntRat(0))
        keys == <<"100", "150", "200", "25", "300", "400", "50", "500",
                  "600", "700", "750", "800", "850", "900", "950">>
    IN  [k \in DOMAIN newScale |->
            setHslaAlpha(baseWithoutAlpha, alphas[IndexOf(keys, k)])]

generateFilledAlphaScaleFromBaseHslaColor(base) ==
    LET newScale == createEmptyColorScale
        baseWithoutAlpha == setHslaAlpha(base, IntRat(0))
        keys == ObjectKeys(newScale)
    IN  [k \in DOMAIN newScale |->
            setHslaAlpha(baseWithoutAlpha, alphas[IndexOf(keys, k)])]

userDefinedColorToHslaColorScale(colorOption) ==
    LET baseScale ==
            IF colorOption.type = "string"
            THEN ("500" :> colorOption.str)
            ELSE colorOption.obj
    IN  [k \in DOMAIN createEmptyColorScale |->
            IF HasShade(baseScale, k) THEN toHslaColor(baseScale[k]) ELSE <<>>]

\* Faulty variants of the merge: no fill at all, and the generated value first.
mergeWithoutFill(generated, userDefined) == userDefined

mergeGeneratedFirst(generated, userDefined) ==
    [k \in DOMAIN userDefined |->
        IF generated[k] # <<>> THEN generated[k] ELSE userDefined[k]]

mergeFilledIntoUserDefinedScale(generated, userDefined) ==
    [k \in DOMAIN userDefined |->
        IF userDefined[k] # <<>> THEN userDefined[k] ELSE generated[k]]

prefixAndStringifyHslaScale(scale, prefix) ==
    PrefixedEntries([k \in DOMAIN scale |->
                        IF scale[k] # <<>> THEN toHslaString(scale[k]) ELSE ""],
                    {k \in DOMAIN scale : scale[k] # <<>>}, prefix)

\* generator(base), the generator passed by its name.
ApplyGenerator(generator, base) ==
    IF generator = "generateFilledAlphaScaleFromBaseHslaColor"
    THEN generateFilledAlphaScaleFromBaseHslaColor(base)
    ELSE generateFilledScaleFromBaseHslaColor(base)

AllShadesMessage == "You need to provide all the following shades: 25, 50, 100, 150, 200, 300, 400, 500, 600, 700, 750, 800, 850, 900, 950"

getUserProvidedScaleOrGenerateHslaColorsScale(colorOption, prefix, generator) ==
    IF ~Truthy(colorOption) THEN ReturnsUndefined
    ELSE IF colorOption.type = "object"
            /\ ~(\A i \in 1..Len(ALL_SHADES) : ALL_SHADES[i] \in DOMAIN colorOption.obj)
    THEN Throws(AllShadesMessage)
    ELSE IF colorOption.type = "object"
    THEN IF \E key \in DOMAIN colorOption.obj : ~Parseable(colorOption.obj[key])
         THEN Throws(ColorParseFailure)
         ELSE LET scale == [key \in DOMAIN createEmptyColorScale \cup DOMAIN colorOption.obj |->
                               IF key \in DOMAIN colorOption.obj
                               THEN toHslaColor(colorOption.obj[key])
                               ELSE createEmptyColorScale[key]]
              IN  Returns(prefixAndStringifyHslaScale(scale, prefix), scale)
    ELSE IF ~Parseable(colorOption.str) THEN Throws(ColorParseFailure)
    ELSE LET hslaColor == toHslaColor(colorOption.str)
             filledHslaColorScale == ApplyGenerator(generator, hslaColor)
         IN  Returns(prefixAndStringifyHslaScale(filledHslaColorScale, prefix),
                     filledHslaColorScale)

Base500Message == "You need to provide at least the 500 shade"

fillUserProvidedScaleWithGeneratedHslaColors(colorOption, prefix, generator) ==
    IF ~Truthy(colorOption) THEN ReturnsUndefined
    ELSE IF colorOption.type = "object" /\ ~HasShade(colorOption.obj, "500")
    THEN Throws(Base500Message)
    ELSE IF colorOption.type = "string" /\ ~Parseable(colorOption.str)
    THEN Throws(ColorParseFailure)
    ELSE IF colorOption.type = "object"
            /\ \E k \in ShadeKeys :
                  HasShade(colorOption.obj, k) /\ ~Parseable(colorOption.obj[k])
    THEN Throws(ColorParseFailure)
    ELSE LET userDefinedHslaColorScale == userDefinedColorToHslaColorScale(colorOption)
             filledHslaColorScale == ApplyGenerator(generator, userDefinedHslaColorScale["500"])
             merged == mergeFilledIntoUserDefinedScale(filledHslaColorScale,
                                                       userDefinedHslaColorScale)
         IN  Returns(prefixAndStringifyHslaScale(merged, prefix), merged)

colorOptionToHslaAlphaScale(colorOption, prefix) ==
    getUserProvidedScaleOrGenerateHslaColorsScale(colorOption, prefix,
        "generateFilledAlphaScaleFromBaseHslaColor")

colorOptionToHslaLightnessScale(colorOption, prefix) ==
    fillUserProvidedScaleWithGeneratedHslaColors(colorOption, prefix,
        "generateFilledScaleFromBaseHslaColor")

---------------------------------------------------------------------------
(* color-mix generators. *)

createAlphaScaleWithTransparentize(baseColor, prefix) ==
    PrefixedEntries([shadeKey \in DOMAIN ALPHA_SHADES_MAP |->
                        transparentize(baseColor, ALPHA_SHADES_MAP[shadeKey])],
                    DOMAIN ALPHA_SHADES_MAP, prefix)

\* The message of the error thrown for an object without a '500' shade.
ColorMixBase500Message(prefix) ==
    "Color scale generation for prefix '" \o prefix
        \o "' failed: The '500' shade is required in the colorOption object."

\* Faulty variant: an object without '500' is answered with undefined.
MissingBaseShadeIgnored(prefix) == ReturnsUndefined

\* The throw of lines 245-247.
MissingBaseShade(prefix) == Throws(ColorMixBase500Message(prefix))

createColorMixLightnessScale(colorOption, prefix) ==
    IF ~Truthy(colorOption) THEN ReturnsUndefined
    ELSE IF colorOption.type = "object" /\ ~HasShade(colorOption.obj, "500")
    THEN MissingBaseShade(prefix)
    ELSE LET baseFor500 ==
                 IF colorOption.type = "string" THEN colorOption.str
                 ELSE colorOption.obj["500"]
             userProvidedShades ==
                 IF colorOption.type = "string" THEN <<>>
                 ELSE [key \in {k \in Range(ALL_LIGHTNESS_SHADE_KEYS) :
                                   HasShade(colorOption.obj, k)} |->
                          colorOption.obj[key]]
             generatedScale ==
                 [shadeKey \in Range(ALL_LIGHTNESS_SHADE_KEYS) |->
                     LET definition == LIGHTNESS_SHADES_DEF[shadeKey]
                     IN  CASE definition.type = "base" -> baseFor500
                           [] definition.type = "lighten" ->
                                lighten(baseFor500, definition.amount)
                           [] definition.type = "darken" ->
                                darken(baseFor500, definition.amount)]
             mergedScale ==
                 [key \in DOMAIN generatedScale \cup DOMAIN userProvidedShades |->
                     IF key \in DOMAIN userProvidedShades
                     THEN userProvidedShades[key]
                     ELSE generatedScale[key]]
         IN  Returns(PrefixedEntries(mergedScale,
                        {key \in Range(ALL_LIGHTNESS_SHADE_KEYS) :
                            key \in DOMAIN mergedScale /\ mergedScale[key] # ""},
                        prefix),
                     NoScale)

---------------------------------------------------------------------------
(* The feature probe and the entry points. *)

\* Faulty variant: the query is made on every call.
QueryAlways(support) == TRUE

\* window.ClerkCSSSupport.colorMix === undefined, once line 117 has made the
\* holder exist.
QueryNeeded(support) == support = <<>> \/ support.colorMix = <<>>

\* Faulty variant: the cached value is overwritten with the present answer.
SupportOverwritten(support, answer) == [colorMix |-> <<answer>>]

\* window.ClerkCSSSupport after isColorMixSupported, CSS.supports answering
\* `answer` if it is executed.
SupportAfterProbe(support, answer) ==
    IF QueryNeeded(support) THEN [colorMix |-> <<answer>>] ELSE support

\* `supported` is what isColorMixSupported() returns; it is read only when
\* colorOption is truthy.
colorOptionToAlphaScale(colorOption, prefix, supported) ==
    IF ~Truthy(colorOption) THEN ReturnsUndefined
    ELSE IF supported
    THEN Returns(createAlphaScaleWithTransparentize(TemplateString(colorOption), prefix),
                 NoScale)
    ELSE colorOptionToHslaAlphaScale(colorOption, prefix)

colorOptionToLightnessScale(colorOption, prefix, supported) ==
    IF ~Truthy(colorOption) THEN ReturnsUndefined
    ELSE IF supported THEN createColorMixLightnessScale(colorOption, prefix)
    ELSE colorOptionToHslaLightnessScale(colorOption, prefix)

---------------------------------------------------------------------------
(* The inputs. *)

Prefixes == {"p", "primary"}

ColorStrings == DOMAIN ParseTable \cup {"notacolor"}

ObjValues == {"red", "#336699", ""}

SparseObjects ==
    UNION {[S -> ObjValues] : S \in {T \in SUBSET ShadeKeys : Cardinality(T) <= MaxSupplied}}

\* Every key "red" but at most one, over a domain that lacks at most
\* MaxMissing keys.
DenseObjects ==
    UNION {{[k \in D |-> IF k = odd THEN v ELSE "red"] : odd \in D, v \in ObjValues} :
           D \in {ShadeKeys \ M : M \in {T \in SUBSET ShadeKeys : Cardinality(T) <= MaxMissing}}}

Options ==
    {UndefinedOption}
    \cup {StringOption(s) : s \in ColorStrings \cup {""}}
    \cup {ObjectOption(o) : o \in SparseObjects \cup DenseObjects}

\* The options of the runs that follow a sequence of calls.
SeqOptions ==
    {UndefinedOption, StringOption("red"), ObjectOption("700" :> "red"),
     ObjectOption(("500" :> "red") @@ ("700" :> "#336699")),
     ObjectOption([k \in ShadeKeys |-> "red"])}

---------------------------------------------------------------------------
(* The Vue plugin: the data of install. *)

\* The value resources is constructed with: all four fields undefined.
InitialResources ==
    [client |-> <<>>, session |-> <<>>, user |-> <<>>, organization |-> <<>>]

\* Faulty variant: a payload counts as cleared as soon as its user is.
isTemporaryClearedStateUserOnly(payload) ==
    payload.user = <<>>

isTemporaryClearedState(payload) ==
    /\ payload.user = <<>>
    /\ payload.organization = <<>>
    /\ payload.session = <<>>

\* The callback given to addListener: the value of resources afterwards.
listener(payload, current) ==
    IF isTemporaryClearedState(payload) THEN current ELSE payload

\* The payloads Clerk emits.
Payloads ==
    [client : {<<>>, [id |-> "client_1"]},
     session : {<<>>, [id |-> "sess_1"]},
     user : {<<>>, [id |-> "user_1"]},
     organization : {<<>>, [id |-> "org_1"]}]

\* The state install leaves behind when it returns: the refs as constructed,
\* and the promise of loadClerkJsScript pending when in a browser.
Installed(inBrowser) ==
    /\ loaded = FALSE
    /\ clerk = "null"
    /\ resources = InitialResources
    /\ pc = IF inBrowser THEN "loadClerkJsScript" ELSE "server"
    /\ payloads = <<>>

---------------------------------------------------------------------------
(* The state machine. *)

NoCall ==
    [fn |-> "none", colorOption |-> UndefinedOption, prefix |-> "",
     outcome |-> ReturnsUndefined, flag |-> <<>>, runtime |-> FALSE,
     queried |-> FALSE]

\* isColorMixSupported(), as a step: the cache and the log of CSS.supports.
Probe ==
    /\ QueryNeeded(ClerkCSSSupport) => Len(supportsLog) < MaxProbes
    /\ ClerkCSSSupport' = SupportAfterProbe(ClerkCSSSupport, supportsAnswer)
    /\ supportsLog' = IF QueryNeeded(ClerkCSSSupport)
                      THEN Append(supportsLog, supportsAnswer)
                      ELSE supportsLog

Entry(fn, colorOption, prefix, supported) ==
    IF fn = "colorOptionToAlphaScale"
    THEN colorOptionToAlphaScale(colorOption, prefix, supported)
    ELSE colorOptionToLightnessScale(colorOption, prefix, supported)

\* One call of an entry point: isColorMixSupported runs only past the
\* !colorOption return.
Call(fn, colorOption, prefix) ==
    /\ IF Truthy(colorOption)
       THEN /\ Probe
            /\ call' = [fn |-> fn, colorOption |-> colorOption, prefix |-> prefix,
                        outcome |-> Entry(fn, colorOption, prefix,
                                          ClerkCSSSupport'.colorMix[1]),
                        flag |-> ClerkCSSSupport'.colorMix,
                        runtime |-> supportsAnswer,
                        queried |-> QueryNeeded(ClerkCSSSupport)]
       ELSE /\ UNCHANGED <<ClerkCSSSupport, supportsLog>>
            /\ call' = [fn |-> fn, colorOption |-> colorOption, prefix |-> prefix,
                        outcome |-> Entry(fn, colorOption, prefix, FALSE),
                        flag |-> <<>>, runtime |-> supportsAnswer, queried |-> FALSE]
    /\ ref' \in {ref, call}
    /\ UNCHANGED supportsAnswer
    /\ UNCHANGED pluginVars

ColorOptionToAlphaScale(options) ==
    \E colorOption \in options, prefix \in Prefixes :
        Call("colorOptionToAlphaScale", colorOption, prefix)

ColorOptionToLightnessScale(options) ==
    \E colorOption \in options, prefix \in Prefixes :
        Call("colorOptionToLightnessScale", colorOption, prefix)

\* A direct call of isColorMixSupported.
IsColorMixSupported ==
    /\ Probe
    /\ call' = [NoCall EXCEPT !.fn = "isColorMixSupported",
                              !.flag = ClerkCSSSupport'.colorMix,
                              !.runtime = supportsAnswer,
                              !.queried = QueryNeeded(ClerkCSSSupport)]
    /\ ref' \in {ref, call}
    /\ UNCHANGED supportsAnswer
    /\ UNCHANGED pluginVars

\* The runtime's answer to the capability query changes.
RuntimeChanges ==
    /\ supportsAnswer' = ~supportsAnswer
    /\ UNCHANGED <<ClerkCSSSupport, supportsLog, call, ref>>
    /\ UNCHANGED pluginVars

Init ==
    /\ ClerkCSSSupport = <<>>
    /\ supportsAnswer \in BOOLEAN
    /\ supportsLog = <<>>
    /\ call = NoCall
    /\ ref = NoCall
    /\ Installed(TRUE)

Next ==
    \/ ColorOptionToAlphaScale(SeqOptions)
    \/ ColorOptionToLightnessScale(SeqOptions)
    \/ IsColorMixSupported
    \/ RuntimeChanges

Spec == Init /\ [][Next]_vars

\* One call of an entry point, from any state of the cache, over all the
\* options.
InitCall ==
    /\ ClerkCSSSupport \in {<<>>, [colorMix |-> <<TRUE>>], [colorMix |-> <<FALSE>>]}
    /\ supportsAnswer \in BOOLEAN
    /\ supportsLog = IF QueryNeeded(ClerkCSSSupport) THEN <<>>
                     ELSE ClerkCSSSupport.colorMix
    /\ call = NoCall
    /\ ref = NoCall
    /\ Installed(TRUE)

NextCall ==
    /\ call = NoCall
    /\ \/ ColorOptionToAlphaScale(Options)
       \/ ColorOptionToLightnessScale(Options)

SpecCall == InitCall /\ [][NextCall]_vars

\* The .then callback of loadClerkJsScript, up to the first await: the
\* promise may reject, window.Clerk may be missing (the callback throws),
\* or clerk.value is set and Clerk.load starts.
LoadClerkJsScript ==
    /\ pc = "loadClerkJsScript"
    /\ \E outcome \in {"rejected", "no window.Clerk", "window.Clerk"} :
          IF outcome = "window.Clerk"
          THEN /\ clerk' = "window.Clerk"
               /\ pc' = "Clerk.load"
          ELSE /\ pc' = "failed"
               /\ UNCHANGED clerk
    /\ UNCHANGED <<loaded, resources, payloads>>
    /\ UNCHANGED colorVars

\* The rest of the callback, once Clerk.load settles: loaded.value is set
\* and the listener is registered, unless the load rejected.
ClerkLoad ==
    /\ pc = "Clerk.load"
    /\ \E resolved \in BOOLEAN :
          IF resolved
          THEN /\ loaded' = TRUE
               /\ pc' = "listening"
          ELSE /\ pc' = "failed"
               /\ UNCHANGED loaded
    /\ UNCHANGED <<clerk, resources, payloads>>
    /\ UNCHANGED colorVars

\* Clerk calls the registered listener with a payload.
Listener ==
    /\ pc = "listening"
    /\ Len(payloads) < MaxPayloads
    /\ \E payload \in Payloads :
          /\ resources' = listener(payload, resources)
          /\ payloads' = Append(payloads, payload)
    /\ UNCHANGED <<loaded, clerk, pc>>
    /\ UNCHANGED colorVars

InitPlugin ==
    /\ ClerkCSSSupport = <<>>
    /\ supportsAnswer = FALSE
    /\ supportsLog = <<>>
    /\ call = NoCall
    /\ ref = NoCall
    /\ \E inBrowser \in BOOLEAN : Installed(inBrowser)

NextPlugin ==
    \/ LoadClerkJsScript
    \/ ClerkLoad
    \/ Listener

SpecPlugin == InitPlugin /\ [][NextPlugin]_vars

---------------------------------------------------------------------------
(* The properties. *)

\* The ladder, as the properties state it.
Ladder ==
    <<"25", "50", "100", "150", "200", "300", "400", "500",
      "600", "700", "750", "800", "850", "900", "950">>

EntryPoints == {"colorOptionToAlphaScale", "colorOptionToLightnessScale"}

IsLightness == call.fn = "colorOptionToLightnessScale"
IsAlpha == call.fn = "colorOptionToAlphaScale"
OnColorMix == call.flag = <<TRUE>>
OnHsla == call.flag = <<FALSE>>
Key(shade) == call.prefix \o shade

\* C1: an accepted colour string or shade object yields, from either entry
\* point and on either branch, a mapping whose keys are exactly the 15 keys
\* prefix+shade.
Completeness ==
    (call.fn \in EntryPoints /\ Truthy(call.colorOption)
        /\ call.outcome.kind # "throws")
    => /\ call.outcome.kind = "mapping"
       /\ DOMAIN call.outcome.map = {Key(Ladder[i]) : i \in 1..Len(Ladder)}
       /\ Cardinality(DOMAIN call.outcome.map) = 15

\* A partial object (500 and one override) went through the HSLA lightness
\* path and came back complete.
CompletenessWitness ==
    /\ IsLightness /\ OnHsla
    /\ call.colorOption.type = "object"
    /\ DOMAIN call.colorOption.obj = {"500", "700"}
    /\ call.outcome.kind = "mapping"
    /\ Cardinality(DOMAIN call.outcome.map) = 15

\* C2: colorOptionToLightnessScale of an object without a '500' entry throws
\* the missing-base-shade error, whatever the prefix and the branch.
MissingBaseFails ==
    (IsLightness /\ call.colorOption.type = "object"
        /\ "500" \notin DOMAIN call.colorOption.obj)
    => /\ call.outcome.kind = "throws"
       /\ call.outcome.map = NoMap
       /\ call.outcome.error \in
            {"You need to provide at least the 500 shade",
             "Color scale generation for prefix '" \o call.prefix
                \o "' failed: The '500' shade is required in the colorOption object."}

\* { '700': 'red' } was refused on the color-mix branch.
MissingBaseWitness ==
    /\ IsLightness /\ OnColorMix
    /\ call.colorOption = ObjectOption("700" :> "red")
    /\ call.outcome.kind = "throws"

\* C3: colorOptionToAlphaScale of an object lacking one of the 15 shade keys
\* throws the incomplete-alpha-scale error, on either branch.
IncompleteAlphaFails ==
    (IsAlpha /\ call.colorOption.type = "object"
        /\ \E i \in 1..Len(Ladder) : Ladder[i] \notin DOMAIN call.colorOption.obj)
    => /\ call.outcome.kind = "throws"
       /\ call.outcome.error = AllShadesMessage

\* C4: in the lightness scale of an object with '500', a shade supplied with
\* a colour X holds X (color-mix branch) or the HSLA conversion of X (HSLA
\* branch), and every other shade holds what the '500' entry alone generates.
OverridePriority ==
    (IsLightness /\ call.colorOption.type = "object"
        /\ HasShade(call.colorOption.obj, "500")
        /\ call.flag # <<>>)
    => LET obj == call.colorOption.obj
           fromBase == Entry(call.fn, StringOption(obj["500"]), call.prefix,
                             call.flag[1]).map
       IN  /\ call.outcome.kind = "mapping"
           /\ \A i \in 1..Len(Ladder) :
                LET k == Ladder[i]
                IN  /\ Key(k) \in DOMAIN call.outcome.map
                    /\ call.outcome.map[Key(k)] =
                         IF HasShade(obj, k)
                         THEN IF call.flag[1] THEN obj[k]
                              ELSE toHslaString(toHslaColor(obj[k]))
                         ELSE fromBase[Key(k)]

\* An override that differs from the generated value was kept, on the HSLA
\* branch, and a shade that was not supplied was generated.
OverrideWitness ==
    /\ IsLightness /\ OnHsla
    /\ call.colorOption = ObjectOption(("500" :> "red") @@ ("700" :> "#336699"))
    /\ call.outcome.kind = "mapping"
    /\ call.outcome.map[Key("700")] = "hsla(210, 50%, 40%, 1)"
    /\ call.outcome.map[Key("700")] #
         toHslaString(generateFilledScaleFromBaseHslaColor(toHslaColor("red"))["700"])
    /\ call.outcome.map[Key("600")] =
         toHslaString(generateFilledScaleFromBaseHslaColor(toHslaColor("red"))["600"])

\* C5: on the HSLA lightness path, for a string input, the lightness of the
\* scale never increases along the ladder 25, 50, ..., 950, and the 500
\* entry is the base colour unchanged.
MonotonicLightness ==
    (IsLightness /\ OnHsla /\ call.colorOption.type = "string"
        /\ call.outcome.kind = "mapping")
    => /\ \A i \in 1..(Len(Ladder) - 1) :
            RatLeq(call.outcome.scale[Ladder[i + 1]].l,
                   call.outcome.scale[Ladder[i]].l)
       /\ call.outcome.scale["500"] = toHslaColor(call.colorOption.str)

\* C6: for a string input the alpha scale gives the k-th shade the k-th
\* entry of 0.02, 0.03, ..., 0.92: as the alpha of the HSLA colour, or as the
\* same number of percent in the transparentize expression; the sequence
\* never decreases.
AlphaPercents == <<2, 3, 7, 11, 15, 28, 41, 53, 62, 73, 78, 81, 84, 87, 92>>

AlphaTable ==
    (IsAlpha /\ call.colorOption.type = "string" /\ call.outcome.kind = "mapping")
    => /\ \A i \in 1..Len(Ladder) :
            IF call.flag[1]
            THEN call.outcome.map[Key(Ladder[i])] =
                    "color-mix(in oklch, " \o call.colorOption.str \o " "
                        \o ToString(AlphaPercents[i]) \o "%, transparent)"
            ELSE /\ call.outcome.scale[Ladder[i]].a = Norm(AlphaPercents[i], 100)
                 /\ call.outcome.map[Key(Ladder[i])] =
                        toHslaString([toHslaColor(call.colorOption.str)
                                        EXCEPT !.a = Norm(AlphaPercents[i], 100)])
       /\ \A i \in 1..(Len(Ladder) - 1) : AlphaPercents[i] <= AlphaPercents[i + 1]

\* A half-transparent colour went through the HSLA alpha path.
AlphaTableWitness ==
    /\ IsAlpha /\ OnHsla
    /\ call.colorOption = StringOption("hsla(30, 20%, 97%, 0.5)")
    /\ call.outcome.kind = "mapping"
    /\ call.outcome.map[Key("25")] = "hsla(30, 20%, 97%, 0.02)"
    /\ call.outcome.map[Key("950")] = "hsla(30, 20%, 97%, 0.92)"

\* C7: CSS.supports is executed at most once, and every call that asks for
\* the flag gets the answer of that one execution, whatever the runtime
\* would answer by then.
ProbedOnce ==
    /\ Len(supportsLog) <= 1
    /\ call.flag # <<>> => /\ Len(supportsLog) = 1
                           /\ call.flag = <<supportsLog[1]>>

\* A later call got the cached TRUE although the runtime now answers FALSE.
ProbedOnceWitness ==
    /\ call.flag = <<TRUE>>
    /\ ~call.queried
    /\ ~call.runtime
    /\ ref.queried

\* C8: two calls of one entry point with the same arguments have the same
\* outcome, wherever in a sequence of calls they occur.
Determinism ==
    (ref.fn \in EntryPoints /\ ref.fn = call.fn
        /\ ref.colorOption = call.colorOption /\ ref.prefix = call.prefix)
    => ref.outcome = call.outcome

\* The earlier call initialised the flag, the runtime changed its answer, and
\* the later call returned the same mapping.
DeterminismWitness ==
    /\ ref.fn \in EntryPoints /\ ref.fn = call.fn
    /\ ref.colorOption = call.colorOption /\ ref.prefix = call.prefix
    /\ ref.queried
    /\ ref.flag # <<call.runtime>>
    /\ call.outcome.kind = "mapping"
    /\ ref.outcome = call.outcome

\* C9: on the color-mix branch the lightness scale of a colour string c has
\* p500 = c, every dark shade color-mix(in oklch, c (100-a)%, black 10%) and
\* every light shade color-mix(in oklch, c (100-a)%, white a%).
LightShades == {"25", "50", "100", "150", "200", "300", "400"}
DarkShades == {"600", "700", "750", "800", "850", "900", "950"}

ColorMixLightness ==
    (IsLightness /\ OnColorMix /\ call.colorOption.type = "string")
    => LET c == call.colorOption.str
           a(k) == parseInt(LIGHTNESS_SHADES_DEF[k].amount)
       IN  /\ call.outcome.kind = "mapping"
           /\ call.outcome.map[Key("500")] = c
           /\ \A k \in DarkShades :
                call.outcome.map[Key(k)] =
                    "color-mix(in oklch, " \o c \o " " \o ToString(100 - a(k))
                        \o "%, black 10%)"
           /\ \A k \in LightShades :
                call.outcome.map[Key(k)] =
                    "color-mix(in oklch, " \o c \o " " \o ToString(100 - a(k))
                        \o "%, white " \o ToString(a(k)) \o "%)"

\* '#336699' on the color-mix branch.
ColorMixLightnessWitness ==
    /\ IsLightness /\ OnColorMix
    /\ call.colorOption = StringOption("#336699")
    /\ call.prefix = "p"
    /\ call.outcome.map["p500"] = "#336699"
    /\ call.outcome.map["p600"] = "color-mix(in oklch, #336699 90%, black 10%)"
    /\ call.outcome.map["p950"] = "color-mix(in oklch, #336699 8%, black 10%)"
    /\ call.outcome.map["p25"] = "color-mix(in oklch, #336699 8%, white 92%)"

\* C10: in the scale generateFilledScaleFromBaseHslaColor produces, shade 50
\* has lightness TARGET_L_50_SHADE and shade 900 has lightness
\* TARGET_L_900_SHADE.
AnchorLightness ==
    (IsLightness /\ OnHsla /\ call.colorOption.type = "string"
        /\ call.outcome.kind = "mapping")
    => /\ call.outcome.scale["50"].l = IntRat(97)
       /\ call.outcome.scale["900"].l = IntRat(12)

---------------------------------------------------------------------------
(* The plugin's resources. *)

\* A payload with at least one of user, organization, session defined.
Kept(payload) ==
    ~(payload.user = <<>> /\ payload.organization = <<>> /\ payload.session = <<>>)

\* The most recent kept payload of a sequence, or the initial value.
MostRecentKept(s) ==
    LET kept == {i \in 1..Len(s) : Kept(s[i])}
    IN  IF kept = {} THEN InitialResources
        ELSE s[CHOOSE i \in kept : \A j \in kept : j <= i]

\* C11: once the listener is registered, resources is the most recent
\* received payload whose user, organization and session are not all
\* undefined, or the initial value if there was none; and when the last
\* payload had all three undefined, resources is what it was before it.
ResourcesFollowPayloads ==
    pc = "listening" =>
        /\ resources = MostRecentKept(payloads)
        /\ (payloads # <<>> /\ ~Kept(payloads[Len(payloads)])) =>
               resources = MostRecentKept(SubSeq(payloads, 1, Len(payloads) - 1))

\* A kept payload was followed by one that clears user, organization and
\* session (while carrying a client), and resources is still the former.
ResourcesFollowPayloadsWitness ==
    /\ pc = "listening"
    /\ Len(payloads) = 2
    /\ Kept(payloads[1])
    /\ ~Kept(payloads[2])
    /\ payloads[2].client # <<>>
    /\ resources = payloads[1]
    /\ resources # InitialResources

====
